---- MODULE Spec2Model ----
(***************************************************************************)
(* Model of the NSX-v admin network utilities                              *)
(*   src/vmware_nsx/shell/admin/plugins/nsxv/resources/networks.py         *)
(* and of the NSX-v QoS rule resolver                                      *)
(*   src/vmware_nsx/services/qos/nsx_v/utils.py                            *)
(*                                                                         *)
(* Python strings whose prefixes the code inspects (morefs, backend names, *)
(* dvs ids) are sequences of one-character strings, so that startswith and *)
(* the regular expression ^dvs-\d* are computed, not assumed.              *)
(***************************************************************************)
EXTENDS Integers, Sequences, FiniteSets, TLC

VARIABLES
    \* ---- backend inventory, mapping store and the list handlers
    response,          \* what nsxv.get_scoping_objects() answers
    mappings,          \* rows of the neutron-nsx network mapping table, in store order
    pc,                \* which handler ran last and how it ended
    output,            \* the rows the last handler handed to output_formatter
    lookups,           \* morefs passed to get_nsx_network_mapping_for_nsx_id
    found,             \* the local variable `found` of list_orphaned_networks
    \* ---- delete_backend_network and a concurrent actor on the backend
    del,               \* the running delete_backend_network invocation
    \* ---- nsx_update_switch
    switches,          \* dvs-id -> teamingPolicy of the backend switch record
    upd,               \* the last nsx_update_switch invocation
    \* ---- NsxVQosRule
    policy,            \* the policy the QoS plugin returns, and the configuration
    qos                \* the NsxVQosRule object

vars == <<response, mappings, pc, output, lookups, found,
          del, switches, upd, policy, qos>>

scanVars   == <<response, mappings, pc, output, lookups, found>>
deleteVars == <<del>>
switchVars == <<switches, upd>>
qosVars    == <<policy, qos>>

(***************************************************************************)
(* Bounds of the model                                                     *)
(***************************************************************************)
MaxNets == 2       \* backend objects in one scoping-objects response
MaxMaps == 2       \* rows of the mapping table
MaxRules == 3      \* rules of one QoS policy

(***************************************************************************)
(* Strings                                                                 *)
(***************************************************************************)
StartsWith(s, p) == Len(p) <= Len(s) /\ SubSeq(s, 1, Len(p)) = p

Digits == {"0", "1", "2", "3", "4", "5", "6", "7", "8", "9"}

PORTGROUP_PREFIX == <<"d", "v", "p", "o", "r", "t", "g", "r", "o", "u", "p">>
EDGE_PREFIX == <<"e", "d", "g", "e", "-">>
DVS_PREFIX == <<"d", "v", "s", "-">>

network_types == {"Network", "VirtualWire", "DistributedVirtualPortgroup"}

\* morefs the backend hands out
Moref_pg1 == PORTGROUP_PREFIX \o <<"-", "1">>
Moref_pg2 == PORTGROUP_PREFIX \o <<"-", "2">>
Moref_vw1 == <<"v", "i", "r", "t", "u", "a", "l", "w", "i", "r", "e", "-", "1">>
Moref_net1 == <<"n", "e", "t", "w", "o", "r", "k", "-", "1">>

\* dvs ids and backend names
Dvs_1 == DVS_PREFIX \o <<"1">>
Dvs_2 == DVS_PREFIX \o <<"2">>
Name_dvs1 == Dvs_1 \o <<"-", "n">>
Name_dvs2 == Dvs_2 \o <<"-", "n">>
Name_edge == EDGE_PREFIX \o <<"1">>

(***************************************************************************)
(* Backend inventory collector                                             *)
(***************************************************************************)
\* et.fromstring(so_list): the parsed tree, or a ParseError for a string that is
\* empty or not well-formed XML
get_networks_from_backend(resp) ==
    IF resp.kind = "xml"
    THEN [raised |-> FALSE, root |-> resp.objects]
    ELSE [raised |-> TRUE, root |-> <<>>]

RECURSIVE FilterNetworks(_)
FilterNetworks(objs) ==
    IF objs = <<>> THEN <<>>
    ELSE LET obj == Head(objs)
         IN (IF obj.type \in network_types
             THEN <<[type |-> obj.type, moref |-> obj.moref, name |-> obj.name]>>
             ELSE <<>>) \o FilterNetworks(Tail(objs))

\* get_networks(): the list of {'type', 'moref', 'name'} of the network objects
get_networks(resp) ==
    LET r == get_networks_from_backend(resp)
    IN IF r.raised THEN [raised |-> TRUE, value |-> <<>>]
       ELSE [raised |-> FALSE, value |-> FilterNetworks(r.root)]

\* the dict moref -> name as a sequence of <<key, value>> items; a later object
\* with the same moref overwrites the value of an earlier one
RECURSIVE DictSet(_, _, _)
DictSet(d, k, v) ==
    IF d = <<>> THEN <<<<k, v>>>>
    ELSE IF Head(d)[1] = k THEN <<<<k, v>>>> \o Tail(d)
    ELSE <<Head(d)>> \o DictSet(Tail(d), k, v)

RECURSIVE NameMapLoop(_, _)
NameMapLoop(objs, d) ==
    IF objs = <<>> THEN d
    ELSE LET obj == Head(objs)
         IN NameMapLoop(Tail(objs),
                        IF obj.type \in network_types
                        THEN DictSet(d, obj.moref, obj.name) ELSE d)

get_networks_name_map(resp) ==
    LET r == get_networks_from_backend(resp)
    IN IF r.raised THEN [raised |-> TRUE, value |-> <<>>]
       ELSE [raised |-> FALSE, value |-> NameMapLoop(r.root, <<>>)]

DictKeys(d) == {d[i][1] : i \in 1..Len(d)}
DictGet(d, k) == LET i == CHOOSE i \in 1..Len(d) : d[i][1] = k IN d[i][2]

(***************************************************************************)
(* Mapping store (vmware_nsx.db.db)                                        *)
(***************************************************************************)
\* get_nsx_networks_mapping(session): every row, in store order
get_nsx_networks_mapping(table) == table

\* get_nsx_network_mapping_for_nsx_id(session, moref): the rows of that nsx_id
RECURSIVE get_nsx_network_mapping_for_nsx_id(_, _)
get_nsx_network_mapping_for_nsx_id(table, moref) ==
    IF table = <<>> THEN <<>>
    ELSE (IF Head(table).nsx_id = moref THEN <<Head(table)>> ELSE <<>>)
         \o get_nsx_network_mapping_for_nsx_id(Tail(table), moref)

(***************************************************************************)
(* list_missing_networks                                                   *)
(***************************************************************************)
MissingRow(entry) ==
    [neutron_id |-> entry.neutron_id, moref |-> entry.nsx_id, dvs_id |-> entry.dvs_id]

\* lines 139-148 with the dvs-id branch left out
MissingEntry_NoDvsCheck(entry, backend_networks) ==
    entry.nsx_id \notin DictKeys(backend_networks)

\* the body of the loop, lines 137-148: whether the entry is appended
MissingEntry(entry, backend_networks) ==
    LET nsx_id == entry.nsx_id
        dvs_id == entry.dvs_id
    IN IF nsx_id \notin DictKeys(backend_networks) THEN TRUE
       ELSE IF dvs_id # <<>>
            THEN LET netname == DictGet(backend_networks, nsx_id)
                 IN ~StartsWith(netname, dvs_id)
            ELSE FALSE

RECURSIVE MissingLoop(_, _, _)
MissingLoop(entries, backend_networks, missing) ==
    IF entries = <<>> THEN missing
    ELSE MissingLoop(Tail(entries), backend_networks,
                     IF MissingEntry(Head(entries), backend_networks)
                     THEN Append(missing, MissingRow(Head(entries)))
                     ELSE missing)

list_missing_networks ==
    LET maps == get_nsx_networks_mapping(mappings)
        backend_networks == get_networks_name_map(response)
    IN /\ IF backend_networks.raised
          THEN /\ pc' = "missing_raised"
               /\ output' = <<>>
          ELSE /\ pc' = "missing_done"
               /\ output' = MissingLoop(maps, backend_networks.value, <<>>)
       /\ lookups' = {}
       /\ found' = "unbound"
       /\ UNCHANGED <<response, mappings>>
       /\ UNCHANGED <<deleteVars, switchVars, qosVars>>

(***************************************************************************)
(* list_orphaned_networks                                                  *)
(***************************************************************************)
\* line 167 without the test of the object type
NotNeutronNetwork_EdgeOnly(net) ==
    StartsWith(net.name, EDGE_PREFIX)

\* line 167: the objects the scan skips
NotNeutronNetwork(net) ==
    StartsWith(net.name, EDGE_PREFIX) \/ net.type = "Network"

\* lines 179-182: `found` after the loop over the rows of this moref; the
\* variable is assigned only when a row passes and is never reset, so it keeps
\* the value a previous object left ("unbound" before the first assignment)
FoundAfterRows(neutron_networks, backend_name, found0) ==
    IF \E i \in 1..Len(neutron_networks) :
          \/ neutron_networks[i].dvs_id = <<>>
          \/ StartsWith(backend_name, neutron_networks[i].dvs_id)
    THEN "True"
    ELSE found0

\* one iteration of the loop of lines 164-185 on the scan's locals
OrphanedStep(st, net, table) ==
    IF st.raised THEN st
    ELSE IF NotNeutronNetwork(net) THEN st
    ELSE LET moref == net.moref
             backend_name == net.name
             neutron_networks == get_nsx_network_mapping_for_nsx_id(table, moref)
             st1 == [st EXCEPT !.lookups = @ \cup {moref}]
         IN IF neutron_networks = <<>>
            THEN [st1 EXCEPT !.missing = Append(@, net)]
            ELSE IF StartsWith(moref, PORTGROUP_PREFIX)
            THEN LET f == FoundAfterRows(neutron_networks, backend_name, st1.found)
                 IN IF f = "unbound"
                    THEN \* `if not found` reads an unassigned local: UnboundLocalError
                         [st1 EXCEPT !.raised = TRUE]
                    ELSE IF f = "False"
                    THEN [st1 EXCEPT !.found = f, !.missing = Append(@, net)]
                    ELSE [st1 EXCEPT !.found = f]
            ELSE st1

RECURSIVE OrphanedLoop(_, _, _)
OrphanedLoop(nets, table, st) ==
    IF nets = <<>> THEN st
    ELSE OrphanedLoop(Tail(nets), table, OrphanedStep(st, Head(nets), table))

list_orphaned_networks ==
    LET backend_networks == get_networks(response)
        st0 == [missing |-> <<>>, lookups |-> {}, found |-> "unbound",
                raised |-> backend_networks.raised]
        st == OrphanedLoop(backend_networks.value, mappings, st0)
    IN /\ pc' = IF st.raised THEN "orphaned_raised" ELSE "orphaned_done"
       \* the list is emitted at line 187, which a raise never reaches
       /\ output' = IF st.raised THEN <<>> ELSE st.missing
       /\ lookups' = st.lookups
       /\ found' = st.found
       /\ UNCHANGED <<response, mappings>>
       /\ UNCHANGED <<deleteVars, switchVars, qosVars>>

(***************************************************************************)
(* delete_backend_network                                                  *)
(***************************************************************************)
RECURSIVE TakeDigits(_)
TakeDigits(s) ==
    IF s # <<>> /\ Head(s) \in Digits THEN <<Head(s)>> \o TakeDigits(Tail(s)) ELSE <<>>

\* re.search(r"^dvs-\d*", backend_name): group(0) of the match, or None
get_dvs_id_from_backend_name(backend_name) ==
    IF StartsWith(backend_name, DVS_PREFIX)
    THEN [matched |-> TRUE,
          group |-> DVS_PREFIX \o
                    TakeDigits(SubSeq(backend_name, Len(DVS_PREFIX) + 1, Len(backend_name)))]
    ELSE [matched |-> FALSE, group |-> <<>>]

\* what the backend client may raise from a deletion call
BackendExceptions == {"VcnsApiException", "ResourceNotFound", "RequestBad"}

\* the answers delete_port_group / delete_virtual_wire can give for this moref:
\* an object that is gone cannot be deleted, one that is there may be refused
BackendDeleteOutcomes(resp, moref) ==
    (IF \E i \in 1..Len(resp.objects) : resp.objects[i].moref = moref
     THEN {"ok"} ELSE {}) \cup BackendExceptions

RemoveObject(resp, moref) ==
    [resp EXCEPT !.objects = SelectSeq(@, LAMBDA o : o.moref # moref)]

\* a handler that names one exception class only
Catches_VcnsOnly(e) == e = "VcnsApiException"

\* `except Exception` (lines 231, 241)
Catches(e) == e \in BackendExceptions

\* lines 202-216: argument checks and the name-index lookup
delete_lookup ==
    /\ del.pc = "start"
    /\ LET kw == del.kwargs
       IN IF ~kw.has_property \/ kw.moref = <<>>
          THEN del' = [del EXCEPT !.pc = "done", !.log = Append(@, "need_moref")]
          ELSE LET names == get_networks_name_map(response)
               IN IF names.raised
                  THEN del' = [del EXCEPT !.pc = "crashed", !.propagated = "ParseError"]
                  ELSE LET backend_name ==
                               IF kw.moref \in DictKeys(names.value)
                               THEN DictGet(names.value, kw.moref) ELSE <<>>
                       IN IF backend_name = <<>>
                          THEN del' = [del EXCEPT !.pc = "done",
                                                  !.log = Append(@, "not_found")]
                          ELSE del' = [del EXCEPT !.pc = "looked_up",
                                                  !.backend_name = backend_name]
    /\ UNCHANGED <<response, mappings, pc, output, lookups, found>>
    /\ UNCHANGED <<switchVars, qosVars>>

\* lines 229-236 and 239-246: the deletion call inside try/except/else
DeleteCall(call, outcome) ==
    /\ IF outcome = "ok"
       THEN /\ del' = [del EXCEPT !.pc = "done", !.calls = Append(@, call),
                                  !.log = Append(@, "deleted")]
            /\ response' = RemoveObject(response, del.kwargs.moref)
       ELSE /\ IF Catches(outcome)
               THEN del' = [del EXCEPT !.pc = "done", !.calls = Append(@, call),
                                       !.raised = outcome,
                                       !.log = Append(@, "delete_failed")]
               ELSE del' = [del EXCEPT !.pc = "crashed", !.calls = Append(@, call),
                                       !.raised = outcome, !.propagated = outcome]
            /\ UNCHANGED response

\* lines 221-246
delete_act ==
    /\ del.pc = "looked_up"
    /\ LET moref == del.kwargs.moref
       IN IF StartsWith(moref, PORTGROUP_PREFIX)
          THEN LET dvs_id == get_dvs_id_from_backend_name(del.backend_name)
               IN IF ~dvs_id.matched \/ dvs_id.group = <<>>
                  THEN /\ del' = [del EXCEPT !.pc = "done",
                                             !.log = Append(@, "no_dvs_id")]
                       /\ UNCHANGED response
                  ELSE \E outcome \in BackendDeleteOutcomes(response, moref) :
                          DeleteCall([op |-> "delete_port_group",
                                      dvs_id |-> dvs_id.group, moref |-> moref], outcome)
          ELSE \E outcome \in BackendDeleteOutcomes(response, moref) :
                  DeleteCall([op |-> "delete_virtual_wire",
                              dvs_id |-> <<>>, moref |-> moref], outcome)
    /\ UNCHANGED <<mappings, pc, output, lookups, found>>
    /\ UNCHANGED <<switchVars, qosVars>>

\* another session or the backend's own administrator removes an object
\* while the command runs
ConcurrentRemove ==
    /\ del.pc \in {"start", "looked_up"}
    /\ \E i \in 1..Len(response.objects) :
          LET moref == response.objects[i].moref
          IN /\ response' = RemoveObject(response, moref)
             /\ del' = IF moref = del.kwargs.moref
                       THEN [del EXCEPT !.race = IF del.pc = "start"
                                                 THEN "before_lookup"
                                                 ELSE "before_delete"]
                       ELSE del
    /\ UNCHANGED <<mappings, pc, output, lookups, found>>
    /\ UNCHANGED <<switchVars, qosVars>>

(***************************************************************************)
(* nsx_update_switch                                                       *)
(***************************************************************************)
supported_policies ==
    <<"ETHER_CHANNEL", "LOADBALANCE_LOADBASED", "LOADBALANCE_SRCID",
      "LOADBALANCE_SRCMAC", "FAILOVER_ORDER", "LACP_ACTIVE", "LACP_PASSIVE",
      "LACP_V2">>

\* ', '.join(values)
RECURSIVE Join(_, _)
Join(sep, values) ==
    IF values = <<>> THEN <<>>
    ELSE IF Len(values) = 1 THEN values
    ELSE <<Head(values), sep>> \o Join(sep, Tail(values))

\* a membership test that lets every value through
PolicySupported_Any(p) == TRUE

\* line 98: policy in supported_policies
PolicySupported(p) == \E i \in 1..Len(supported_policies) : supported_policies[i] = p

Msg(level, text, arg) == [level |-> level, text |-> text, arg |-> arg]

\* what update_vdn_switch can answer: the updated switch, or a VcnsApiException
\* whose details start with "No enum constant" or with something else
UpdateOutcomes == {"ok", "no_enum_constant", "other_error"}

\* lines 75-121; kw is the parsed command line, outcome the backend's answer to
\* update_vdn_switch should the handler get as far as calling it
nsx_update_switch(kw, outcome) ==
    LET before == switches
        done(log, calls, after) ==
            /\ upd' = [ran |-> TRUE, kwargs |-> kw, log |-> log, calls |-> calls,
                       before |-> before]
            /\ switches' = after
    IN /\ IF ~kw.has_property
          THEN done(<<Msg("error", "need_dvs_id_and_attribute", <<>>)>>, <<>>, switches)
          ELSE IF kw.dvs_id = "none"
          THEN done(<<Msg("error", "need_dvs_id", <<>>)>>, <<>>, switches)
          ELSE IF kw.dvs_id \notin DOMAIN switches
          THEN \* get_vdn_switch raises ResourceNotFound
               done(<<Msg("error", "dvs_not_found", <<kw.dvs_id>>)>>, <<>>, switches)
          ELSE LET switch == switches[kw.dvs_id]
                   policy_ == kw.teamingpolicy
               IN IF PolicySupported(policy_)
                  THEN IF switch = policy_
                       THEN done(<<Msg("info", "policy_already_set", <<>>)>>, <<>>, switches)
                       ELSE LET call == [op |-> "update_vdn_switch",
                                         dvs_id |-> kw.dvs_id, teamingPolicy |-> policy_]
                                first == Msg("info", "updating", <<kw.dvs_id, policy_>>)
                            IN IF outcome = "ok"
                               THEN done(<<first, Msg("info", "value_after_update",
                                                      <<policy_>>)>>,
                                         <<call>>,
                                         [switches EXCEPT ![kw.dvs_id] = policy_])
                               ELSE IF outcome = "no_enum_constant"
                               THEN done(<<first, Msg("error", "unknown_teaming_policy",
                                                      <<policy_>>)>>,
                                         <<call>>, switches)
                               ELSE done(<<first, Msg("error", "unexpected_error", <<>>)>>,
                                         <<call>>, switches)
                  ELSE done(<<Msg("info", "current_switch_value", <<switch>>),
                              Msg("error", "invalid_teaming_policy", <<>>),
                              Msg("error", "possible_values",
                                  Join(", ", supported_policies))>>,
                            <<>>, switches)
       /\ UNCHANGED <<scanVars, deleteVars, qosVars>>

(***************************************************************************)
(* NsxVQosRule                                                             *)
(***************************************************************************)
RULE_TYPE_BANDWIDTH_LIMIT == "bandwidth_limit"
RULE_TYPE_DSCP_MARKING == "dscp_marking"

\* round(x) for x = n / d >= 0: Python 3 rounds a tie to the even neighbour,
\* Python 2 away from zero
Round(n, d, tie) ==
    LET q == n \div d
        r == n % d
    IN IF 2 * r < d THEN q
       ELSE IF 2 * r > d THEN q + 1
       ELSE IF tie = "half_even" THEN (IF q % 2 = 0 THEN q ELSE q + 1)
       ELSE q + 1

\* lines 36-43: the fields as __init__ leaves them
QosDefaults ==
    [bandwidthEnabled |-> FALSE, averageBandwidth |-> 0, peakBandwidth |-> 0,
     burstSize |-> 0, dscpMarkEnabled |-> FALSE, dscpMarkValue |-> 0]

\* the bandwidth branch assigning only while no rule was honoured yet
ApplyRule_FirstWins(q, rule_obj, cfg) ==
    LET q1 == IF rule_obj.type = RULE_TYPE_BANDWIDTH_LIMIT /\ ~q.bandwidthEnabled
              THEN [q EXCEPT !.bandwidthEnabled = TRUE,
                             !.averageBandwidth = rule_obj.max_kbps * 1024,
                             !.peakBandwidth =
                                 Round(rule_obj.max_kbps * 1024 * cfg.num, cfg.den, cfg.tie),
                             !.burstSize = rule_obj.max_burst_kbps * 128]
              ELSE q
    IN IF rule_obj.type = RULE_TYPE_DSCP_MARKING /\ ~q.dscpMarkEnabled
       THEN [q1 EXCEPT !.dscpMarkEnabled = TRUE, !.dscpMarkValue = rule_obj.dscp_mark]
       ELSE q1

\* the burst size converted with the factor of the average bandwidth
ApplyRule_BurstAsBits(q, rule_obj, cfg) ==
    LET q1 == IF rule_obj.type = RULE_TYPE_BANDWIDTH_LIMIT
              THEN [q EXCEPT !.bandwidthEnabled = TRUE,
                             !.averageBandwidth = rule_obj.max_kbps * 1024,
                             !.peakBandwidth =
                                 Round(rule_obj.max_kbps * 1024 * cfg.num, cfg.den, cfg.tie),
                             !.burstSize = rule_obj.max_burst_kbps * 1024]
              ELSE q
    IN IF rule_obj.type = RULE_TYPE_DSCP_MARKING
       THEN [q1 EXCEPT !.dscpMarkEnabled = TRUE, !.dscpMarkValue = rule_obj.dscp_mark]
       ELSE q1

\* lines 67-82: the body of the loop over policy_obj['rules']
ApplyRule(q, rule_obj, cfg) ==
    LET q1 == IF rule_obj.type = RULE_TYPE_BANDWIDTH_LIMIT
              THEN LET averageBandwidth == rule_obj.max_kbps * 1024
                   IN [q EXCEPT !.bandwidthEnabled = TRUE,
                                !.averageBandwidth = averageBandwidth,
                                !.peakBandwidth =
                                    Round(averageBandwidth * cfg.num, cfg.den, cfg.tie),
                                !.burstSize = rule_obj.max_burst_kbps * 128]
              ELSE q
    IN IF rule_obj.type = RULE_TYPE_DSCP_MARKING
       THEN [q1 EXCEPT !.dscpMarkEnabled = TRUE, !.dscpMarkValue = rule_obj.dscp_mark]
       ELSE q1

RECURSIVE RulesLoop(_, _, _)
RulesLoop(rules, q, cfg) ==
    IF rules = <<>> THEN q
    ELSE RulesLoop(Tail(rules), ApplyRule(q, Head(rules), cfg), cfg)

\* lines 54-84
_init_from_policy_id(q, pol) ==
    LET q0 == [q EXCEPT !.bandwidthEnabled = FALSE, !.dscpMarkEnabled = FALSE]
    IN IF pol.has_id /\ Len(pol.rules) > 0
       THEN RulesLoop(pol.rules, q0, pol.cfg)
       ELSE q0

\* NsxVQosRule(context, qos_policy_id), lines 29-46
NsxVQosRule ==
    /\ ~qos.constructed
    /\ qos' = [constructed |-> TRUE,
               rule |-> IF policy.has_id
                        THEN _init_from_policy_id(QosDefaults, policy)
                        ELSE QosDefaults]
    /\ UNCHANGED policy
    /\ UNCHANGED <<scanVars, deleteVars, switchVars>>

(***************************************************************************)
(* neutron_list_networks                                                   *)
(***************************************************************************)
neutron_list_networks ==
    LET nets == get_networks(response)
    IN /\ pc' = IF nets.raised THEN "list_raised" ELSE "list_done"
       /\ output' = nets.value
       /\ lookups' = {}
       /\ found' = "unbound"
       /\ UNCHANGED <<response, mappings>>
       /\ UNCHANGED <<deleteVars, switchVars, qosVars>>

(***************************************************************************)
(* Inputs                                                                  *)
(***************************************************************************)
Name_net == <<"n">>
Name_dvsx == DVS_PREFIX \o <<"n">>
Moref_dc1 == <<"d", "c", "-", "1">>

Obj(t, m, n) == [type |-> t, moref |-> m, name |-> n]

\* sequences of at most n objects with pairwise different morefs
Inventories(Objs, n) ==
    UNION {{s \in [1..k -> Objs] :
               \A i, j \in 1..k : i # j => s[i].moref # s[j].moref} : k \in 0..n}

ScanObjects ==
    {Obj("DistributedVirtualPortgroup", Moref_pg1, n) :
        n \in {Name_dvs1, Name_dvs2, Name_edge}}
    \cup {Obj("DistributedVirtualPortgroup", Moref_pg2, n) : n \in {Name_dvs1, Name_dvs2}}
    \cup {Obj("VirtualWire", Moref_vw1, n) : n \in {Name_dvs1, Name_edge}}
    \cup {Obj("Network", Moref_net1, Name_dvs1)}
    \cup {Obj("Datacenter", Moref_dc1, Name_dvs1)}

ScanResponses ==
    {[kind |-> "xml", objects |-> inv] : inv \in Inventories(ScanObjects, MaxNets)}
    \cup {[kind |-> "empty", objects |-> <<>>], [kind |-> "malformed", objects |-> <<>>]}

MappingRows ==
    ({Moref_pg1} \X {<<>>, Dvs_1, Dvs_2})
    \cup ({Moref_pg2} \X {<<>>, Dvs_1})
    \cup ({Moref_vw1} \X {<<>>, Dvs_2})

\* the rows of the table; neutron_id is the row's own key
MappingTables ==
    UNION {{[i \in 1..k |-> [neutron_id |-> i, nsx_id |-> s[i][1], dvs_id |-> s[i][2]]] :
               s \in [1..k -> MappingRows]} : k \in 0..MaxMaps}

DeleteObjects ==
    {Obj("DistributedVirtualPortgroup", Moref_pg1, n) :
        n \in {Name_dvs1, Name_dvsx, Name_net}}
    \cup {Obj("VirtualWire", Moref_vw1, n) : n \in {Name_net, Name_dvs1}}

DeleteKwargs ==
    {[has_property |-> FALSE, moref |-> <<>>], [has_property |-> TRUE, moref |-> <<>>]}
    \cup {[has_property |-> TRUE, moref |-> m] : m \in {Moref_pg1, Moref_vw1}}

KnownDvs == {"dvs-1"}
PolicyNames == {supported_policies[i] : i \in 1..Len(supported_policies)}

UpdateKwargs ==
    [has_property : BOOLEAN,
     dvs_id : {"none", "dvs-1", "dvs-9"},
     teamingpolicy : {"none", "BOGUS", "lacp_v2", "ETHER_CHANNEL", "LACP_V2",
                      "FAILOVER_ORDER"}]

QosRules ==
    {[type |-> RULE_TYPE_BANDWIDTH_LIMIT, max_kbps |-> k, max_burst_kbps |-> b,
      dscp_mark |-> 0] : k \in {1, 100}, b \in {0, 10}}
    \cup {[type |-> RULE_TYPE_DSCP_MARKING, max_kbps |-> 0, max_burst_kbps |-> 0,
           dscp_mark |-> d] : d \in {0, 26}}
    \cup {[type |-> "minimum_bandwidth", max_kbps |-> 0, max_burst_kbps |-> 0,
           dscp_mark |-> 0]}

\* cfg.CONF.NSX.qos_peak_bw_multiplier as the fraction num / den, and the
\* interpreter's rule for round() on a tie
QosConfigs ==
    {[num |-> m[1], den |-> m[2], tie |-> t] :
        m \in {<<15, 10>>, <<2, 1>>, <<2049, 2048>>}, t \in {"half_even", "half_away"}}

Policies ==
    [has_id : BOOLEAN,
     rules : UNION {[1..k -> QosRules] : k \in 0..MaxRules},
     cfg : QosConfigs]

(***************************************************************************)
(* Initial states and specifications                                       *)
(***************************************************************************)
ScanIdle ==
    /\ mappings = <<>>
    /\ pc = "idle"
    /\ output = <<>>
    /\ lookups = {}
    /\ found = "unbound"

DeleteIdle ==
    del = [pc |-> "idle", kwargs |-> [has_property |-> FALSE, moref |-> <<>>],
           backend_name |-> <<>>, calls |-> <<>>, log |-> <<>>, raised |-> "none",
           propagated |-> "none", race |-> "none"]

SwitchIdle ==
    /\ switches = [d \in KnownDvs |-> "FAILOVER_ORDER"]
    /\ upd = [ran |-> FALSE, kwargs |-> [has_property |-> FALSE, dvs_id |-> "none",
                                        teamingpolicy |-> "none"],
              log |-> <<>>, calls |-> <<>>, before |-> switches]

QosIdle ==
    /\ policy = [has_id |-> FALSE, rules |-> <<>>,
                 cfg |-> [num |-> 2, den |-> 1, tie |-> "half_even"]]
    /\ qos = [constructed |-> FALSE, rule |-> QosDefaults]

\* the list handlers over every backend answer and every mapping table
Init ==
    /\ response \in ScanResponses
    /\ mappings \in MappingTables
    /\ pc = "idle"
    /\ output = <<>>
    /\ lookups = {}
    /\ found = "unbound"
    /\ DeleteIdle /\ SwitchIdle /\ QosIdle

Next == neutron_list_networks \/ list_missing_networks \/ list_orphaned_networks

Spec == Init /\ [][Next]_vars

\* one delete_backend_network command racing with removals on the backend
InitDelete ==
    /\ response \in {[kind |-> "xml", objects |-> inv] :
                        inv \in Inventories(DeleteObjects, MaxNets)}
    /\ ScanIdle
    /\ \E kw \in DeleteKwargs :
          del = [pc |-> "start", kwargs |-> kw, backend_name |-> <<>>, calls |-> <<>>,
                 log |-> <<>>, raised |-> "none", propagated |-> "none",
                 race |-> "none"]
    /\ SwitchIdle /\ QosIdle

NextDelete == delete_lookup \/ delete_act \/ ConcurrentRemove

SpecDelete == InitDelete /\ [][NextDelete]_vars

\* nsx_update_switch commands against one backend switch
InitSwitch ==
    /\ response = [kind |-> "xml", objects |-> <<>>]
    /\ ScanIdle /\ DeleteIdle /\ QosIdle
    /\ switches \in [KnownDvs -> PolicyNames]
    /\ upd = [ran |-> FALSE, kwargs |-> [has_property |-> FALSE, dvs_id |-> "none",
                                        teamingpolicy |-> "none"],
              log |-> <<>>, calls |-> <<>>, before |-> switches]

NextSwitch == \E kw \in UpdateKwargs, outcome \in UpdateOutcomes : nsx_update_switch(kw, outcome)

SpecSwitch == InitSwitch /\ [][NextSwitch]_vars

\* the construction of one NsxVQosRule from a policy
InitQos ==
    /\ response = [kind |-> "xml", objects |-> <<>>]
    /\ ScanIdle /\ DeleteIdle /\ SwitchIdle
    /\ policy \in Policies
    /\ qos = [constructed |-> FALSE, rule |-> QosDefaults]

NextQos == NsxVQosRule

SpecQos == InitQos /\ [][NextQos]_vars

(***************************************************************************)
(* Properties                                                              *)
(***************************************************************************)
\* the inventory the scans work on: the network objects of the response
InventoryObjects ==
    {response.objects[i] : i \in {j \in 1..Len(response.objects) :
                                     response.objects[j].type \in network_types}}

Elements(seq) == {seq[i] : i \in 1..Len(seq)}

RowsOf(moref) == {mappings[j] : j \in {k \in 1..Len(mappings) : mappings[k].nsx_id = moref}}

Skipped(net) == net.type = "Network" \/ StartsWith(net.name, EDGE_PREFIX)

OrphanedScanRan == pc \in {"orphaned_done", "orphaned_raised"}

\* C1: after list_orphaned_networks, a backend object that is not skipped, whose
\* moref starts with 'dvportgroup' and that has at least one mapping row is in
\* the orphaned list exactly when none of its rows has an empty dvs_id or a
\* dvs_id that is a prefix of its name, whatever objects precede it.
C1_OrphanedVerdict ==
    (OrphanedScanRan /\ response.kind = "xml") =>
        \A net \in InventoryObjects :
            (~Skipped(net) /\ StartsWith(net.moref, PORTGROUP_PREFIX)
                /\ RowsOf(net.moref) # {})
            => ((Obj(net.type, net.moref, net.name) \in Elements(output))
                <=> ~\E row \in RowsOf(net.moref) :
                        row.dvs_id = <<>> \/ StartsWith(net.name, row.dvs_id))

\* C2: when the collector and the mapping store answer, neither
\* list_missing_networks nor list_orphaned_networks ends with an exception.
C2_ScansNeverRaise ==
    response.kind = "xml" => pc \notin {"missing_raised", "orphaned_raised"}

\* the condition of C3 on one mapping row, stated on the backend objects
C3_IsMissing(entry) ==
    LET objs == {o \in InventoryObjects : o.moref = entry.nsx_id}
    IN \/ objs = {}
       \/ /\ entry.dvs_id # <<>>
          /\ \E o \in objs : ~StartsWith(o.name, entry.dvs_id)

\* C3: after list_missing_networks the missing list holds, in mapping-store
\* order, exactly the rows whose nsx_id is no key of the backend name index or
\* whose non-empty dvs_id is no prefix of the backend name of that nsx_id.
C3_MissingIff ==
    pc = "missing_done" =>
        LET sel == SelectSeq(mappings, C3_IsMissing)
        IN output = [i \in 1..Len(sel) |->
                        [neutron_id |-> sel[i].neutron_id, moref |-> sel[i].nsx_id,
                         dvs_id |-> sel[i].dvs_id]]

\* a run of list_missing_networks that lists a row for a prefix mismatch and
\* clears another row whose prefix check passes
C3_Witness ==
    /\ pc = "missing_done"
    /\ Len(mappings) = 2
    /\ Len(output) = 1
    /\ \E o \in InventoryObjects : o.moref = output[1].moref
    /\ \E row \in Elements(mappings) :
          /\ row.neutron_id # output[1].neutron_id
          /\ row.dvs_id # <<>>
          /\ \E o \in InventoryObjects :
                o.moref = row.nsx_id /\ StartsWith(o.name, row.dvs_id)

\* C4: after list_orphaned_networks no backend object of type 'Network' or with
\* a name starting with 'edge-' is in the orphaned list, and its moref was
\* never passed to the mapping-store lookup.
C4_SkippedNeverOrphaned ==
    OrphanedScanRan =>
        \A net \in InventoryObjects :
            Skipped(net) =>
                /\ Obj(net.type, net.moref, net.name) \notin Elements(output)
                /\ net.moref \notin lookups

\* a completed orphaned scan that reported one object and skipped an 'edge-'
\* port group whose mapping rows all fail the dvs-id check
C4_Witness ==
    /\ pc = "orphaned_done"
    /\ output # <<>>
    /\ \E net \in InventoryObjects :
          /\ net.type = "DistributedVirtualPortgroup"
          /\ StartsWith(net.name, EDGE_PREFIX)
          /\ RowsOf(net.moref) # {}
          /\ \A row \in RowsOf(net.moref) :
                row.dvs_id # <<>> /\ ~StartsWith(net.name, row.dvs_id)
          /\ net.moref \notin lookups

\* C10: with a malformed or empty scoping-objects response the collector
\* returns an empty collection: no handler built on it ends with an exception
\* and neutron_list_networks lists nothing.
C10_CollectorDegrades ==
    (response.kind # "xml" /\ pc # "idle") =>
        /\ pc \in {"list_done", "missing_done", "orphaned_done"}
        /\ (pc = "list_done" => output = <<>>)

Last(seq) == seq[Len(seq)]

DeleteErrors == {"need_moref", "not_found", "no_dvs_id", "delete_failed"}

\* the adapter-id pattern of the claim: 'dvs-' followed by digits
MatchesDvsDigits(name) ==
    /\ StartsWith(name, DVS_PREFIX)
    /\ Len(name) > Len(DVS_PREFIX)
    /\ name[Len(DVS_PREFIX) + 1] \in Digits

\* C5: delete_backend_network on a moref starting with 'dvportgroup' whose
\* backend name does not match 'dvs-<digits>' ends with a reported error and
\* calls neither delete_port_group nor delete_virtual_wire.
C5_NoDvsIdNoCall ==
    (/\ del.pc \in {"done", "crashed"}
     /\ StartsWith(del.kwargs.moref, PORTGROUP_PREFIX)
     /\ del.backend_name # <<>>
     /\ ~MatchesDvsDigits(del.backend_name))
    => /\ del.calls = <<>>
       /\ del.pc = "done"
       /\ Last(del.log) \in DeleteErrors

\* C6: when another actor removes the object delete_backend_network is about,
\* the command returns normally with a reported failure: 'not found' and no
\* deletion call when the object went before the lookup, the caught backend
\* failure when the deletion call raised; no exception of delete_port_group or
\* delete_virtual_wire ever reaches the caller.
C6_RaceReportedNotRaised ==
    /\ del.propagated = "none"
    /\ del.pc # "crashed"
    /\ (del.pc = "done" /\ del.race = "before_lookup")
       => (del.log = <<"not_found">> /\ del.calls = <<>>)
    /\ (del.pc = "done" /\ del.race = "before_delete")
       => (Len(del.log) = 1 /\ del.log[1] \in {"delete_failed", "no_dvs_id"})
    /\ (del.pc = "done" /\ del.raised # "none")
       => (Last(del.log) = "delete_failed" /\ Len(del.calls) = 1)

\* the object went between the lookup and the deletion call, which raised and
\* was reported
C6_Witness ==
    /\ del.pc = "done"
    /\ del.race = "before_delete"
    /\ del.raised = "ResourceNotFound"
    /\ del.calls # <<>>
    /\ del.log = <<"delete_failed">>

EffectivePolicy(kw) == IF kw.has_property THEN kw.teamingpolicy ELSE "none"

ReportsAllowedSet(log) ==
    \E i \in 1..Len(log) :
        /\ log[i].text = "possible_values"
        /\ \A p \in {"ETHER_CHANNEL", "LOADBALANCE_LOADBASED", "LOADBALANCE_SRCID",
                     "LOADBALANCE_SRCMAC", "FAILOVER_ORDER", "LACP_ACTIVE",
                     "LACP_PASSIVE", "LACP_V2"} : p \in Elements(log[i].arg)

OutsideAllowedSet(p) ==
    p \notin {"ETHER_CHANNEL", "LOADBALANCE_LOADBASED", "LOADBALANCE_SRCID",
              "LOADBALANCE_SRCMAC", "FAILOVER_ORDER", "LACP_ACTIVE",
              "LACP_PASSIVE", "LACP_V2"}

\* C7 as stated: nsx_update_switch with a teamingpolicy outside the allowed set
\* (or none) never calls update_vdn_switch, leaves the switch record unchanged
\* and reports the full list of allowed values.
C7_Original ==
    (upd.ran /\ OutsideAllowedSet(EffectivePolicy(upd.kwargs)))
    => /\ upd.calls = <<>>
       /\ switches = upd.before
       /\ ReportsAllowedSet(upd.log)

\* C7 amended: nsx_update_switch with a teamingpolicy outside the allowed set
\* (or none) never calls update_vdn_switch and leaves the switch record
\* unchanged; it reports the full list of allowed values when a dvs-id was
\* given and get_vdn_switch found that switch.
C7_RejectsUnsupported ==
    (upd.ran /\ OutsideAllowedSet(EffectivePolicy(upd.kwargs)))
    => /\ upd.calls = <<>>
       /\ switches = upd.before
       /\ (upd.kwargs.has_property /\ upd.kwargs.dvs_id \in DOMAIN upd.before)
          => ReportsAllowedSet(upd.log)

\* an unknown policy name for an existing switch, rejected with the list
C7_Witness ==
    /\ upd.ran
    /\ upd.kwargs.has_property
    /\ upd.kwargs.dvs_id = "dvs-1"
    /\ upd.kwargs.teamingpolicy = "BOGUS"
    /\ upd.calls = <<>>
    /\ ReportsAllowedSet(upd.log)

IsLastOfType(rules, i, t) ==
    /\ rules[i].type = t
    /\ \A j \in (i + 1)..Len(rules) : rules[j].type # t

CountOfType(rules, t) == Cardinality({i \in 1..Len(rules) : rules[i].type = t})

Abs(x) == IF x < 0 THEN -x ELSE x

\* p is an integer nearest to n / d
Nearest(p, n, d) == 2 * Abs(p * d - n) <= d

\* C8: with two or more bandwidth-limit rules the three bandwidth fields come
\* from the last bandwidth-limit rule, and with two or more DSCP rules
\* dscpMarkValue comes from the last DSCP rule, whatever lies between them.
C8_LastRuleWins ==
    (qos.constructed /\ policy.has_id) =>
        \A i \in 1..Len(policy.rules) :
            /\ (CountOfType(policy.rules, RULE_TYPE_BANDWIDTH_LIMIT) >= 2
                /\ IsLastOfType(policy.rules, i, RULE_TYPE_BANDWIDTH_LIMIT))
               => /\ qos.rule.averageBandwidth = policy.rules[i].max_kbps * 1024
                  /\ qos.rule.burstSize = policy.rules[i].max_burst_kbps * 128
                  /\ Nearest(qos.rule.peakBandwidth,
                             policy.rules[i].max_kbps * 1024 * policy.cfg.num,
                             policy.cfg.den)
            /\ (CountOfType(policy.rules, RULE_TYPE_DSCP_MARKING) >= 2
                /\ IsLastOfType(policy.rules, i, RULE_TYPE_DSCP_MARKING))
               => qos.rule.dscpMarkValue = policy.rules[i].dscp_mark

\* two bandwidth-limit rules that differ, a DSCP rule between them
C8_Witness ==
    /\ qos.constructed /\ policy.has_id
    /\ Len(policy.rules) = 3
    /\ policy.rules[1].type = RULE_TYPE_BANDWIDTH_LIMIT
    /\ policy.rules[2].type = RULE_TYPE_DSCP_MARKING
    /\ policy.rules[3].type = RULE_TYPE_BANDWIDTH_LIMIT
    /\ policy.rules[1].max_kbps # policy.rules[3].max_kbps
    /\ policy.rules[1].max_burst_kbps # policy.rules[3].max_burst_kbps
    /\ qos.rule.averageBandwidth = policy.rules[3].max_kbps * 1024
    /\ qos.rule.burstSize = policy.rules[3].max_burst_kbps * 128

\* C9: the honoured bandwidth-limit rule with max_kbps = k, max_burst_kbps = b
\* and multiplier m gives bandwidthEnabled, averageBandwidth = k * 1024,
\* burstSize = b * 128 and peakBandwidth = round(k * 1024 * m); k = 100,
\* b = 10, m = 1.5 give 102400, 1280 and 153600.
C9_UnitConversion ==
    (qos.constructed /\ policy.has_id) =>
        \A i \in 1..Len(policy.rules) :
            IsLastOfType(policy.rules, i, RULE_TYPE_BANDWIDTH_LIMIT) =>
                LET k == policy.rules[i].max_kbps
                    b == policy.rules[i].max_burst_kbps
                IN /\ qos.rule.bandwidthEnabled
                   /\ qos.rule.averageBandwidth = k * 1024
                   /\ qos.rule.burstSize = b * 128
                   /\ Nearest(qos.rule.peakBandwidth, k * 1024 * policy.cfg.num,
                              policy.cfg.den)
                   /\ (k = 100 /\ b = 10 /\ policy.cfg.num = 15 /\ policy.cfg.den = 10)
                      => /\ qos.rule.averageBandwidth = 102400
                         /\ qos.rule.burstSize = 1280
                         /\ qos.rule.peakBandwidth = 153600

\* the example of the claim: one rule, 100 kbps, burst 10, multiplier 1.5
C9_Witness ==
    /\ qos.constructed /\ policy.has_id
    /\ Len(policy.rules) = 1
    /\ policy.rules[1].type = RULE_TYPE_BANDWIDTH_LIMIT
    /\ policy.rules[1].max_kbps = 100
    /\ policy.rules[1].max_burst_kbps = 10
    /\ policy.cfg.num = 15 /\ policy.cfg.den = 10
    /\ qos.rule.peakBandwidth = 153600

====
